---- MODULE Spec2Model ----
(***************************************************************************)
(* LRUCache of src/ENDLABEXAM2.py: a lookup table (dict key -> LRUNode), a *)
(* doubly linked recency list between two sentinel nodes, and the          *)
(* CacheMetrics counters.  Every method is one action; the private list    *)
(* helpers are operators on the node store, written statement by           *)
(* statement.  LRUNode.timestamp is written but never read by any method   *)
(* and is not carried in the node records.                                 *)
(***************************************************************************)
EXTENDS Integers, Sequences, FiniteSets, TLC

\* ---------------------------------------------------------------- bounds
MaxCapacity == 2
MaxRequests == 2
MaxEvictions == 2

\* ------------------------------------------------------------ value sets
\* Python None: the result of a missed get, of clear(), and a storable value.
None == "None"
\* Keys are str; "" is also the key carried by the two sentinel nodes.
Keys == {"", "k1", "k2"}
Values == {None, "v1"}
\* Arguments tried for LRUCache(capacity).
CapacityArgs == (-1)..MaxCapacity

\* Node references.  NoNode is the Python None held in prev/next of a node
\* that is not linked, and the result of dict.get on an absent key.
NoNode == -1
HeadId == 0
TailId == 1
\* put allocates the new node before it evicts, so capacity + 1 entry nodes
\* are alive at once; the store has one slot more than that.
EntryIds == 2..(MaxCapacity + 3)
NodeIds == {HeadId, TailId} \cup EntryIds

VARIABLES
    capacity,   \* self.capacity
    cache,      \* self.cache : dict key -> node
    nodes,      \* the LRUNode objects, by reference
    metrics,    \* self.metrics : CacheMetrics
    raised,     \* "none", or the exception the constructor raised
    op,         \* the last call made
    ret,        \* what it returned
    touched,    \* history: present keys by last touch, most recent first
    lastPut,    \* history: value of the last put of each key not removed since
    streak,     \* history: puts of distinct keys made since the cache was empty
                \* (cleared: it was empty by a clear)
    gone,       \* history: the keys the last call removed
    balance,    \* history: puts that returned true, less the deletes that
                \* returned true, the evictions and the entries cleared
    locking,    \* whether the callers wrap every call in one shared lock
    owner,      \* the thread holding that lock
    frames,     \* per thread: the call it is in, statement by statement
    started     \* the number of calls the threads have started

vars == <<capacity, cache, nodes, metrics, raised, op, ret,
          touched, lastPut, streak, gone, balance, locking, owner, frames, started>>

\* ------------------------------------------------------------- LRUNode
LRUNode(key, value) == [key |-> key, value |-> value, prev |-> NoNode, next |-> NoNode]

\* A slot that holds no object.
FreeSlot == [key |-> "", value |-> None, prev |-> NoNode, next |-> NoNode]

\* CacheMetrics(max_size=capacity)
CacheMetrics(max_size) ==
    [hits |-> 0, misses |-> 0, evictions |-> 0, total_requests |-> 0,
     cache_size |-> 0, max_size |-> max_size]

\* ---------------------------------------------------------- dict helpers
EmptyDict == [k \in {} |-> NoNode]

\* self.cache.get(key)
DictGet(d, key) == IF key \in DOMAIN d THEN d[key] ELSE NoNode

\* self.cache[key] = node
DictSet(d, key, node) == [k \in (DOMAIN d) \cup {key} |-> IF k = key THEN node ELSE d[k]]

\* del self.cache[key]
DictDel(d, key) == [k \in (DOMAIN d) \ {key} |-> d[k]]

\* len(self.cache)
DictLen(d) == Cardinality(DOMAIN d)

Range(d) == {d[k] : k \in DOMAIN d}

\* ------------------------------------------------------ object lifetime
\* Objects reachable from self.head, self.tail and the table through prev
\* and next; everything else is garbage and its slot is free again.
RECURSIVE Reach(_, _)
Reach(nd, seen) ==
    LET step == {nd[n].prev : n \in seen} \cup {nd[n].next : n \in seen}
        more == (seen \cup step) \ {NoNode}
    IN  IF more = seen THEN seen ELSE Reach(nd, more)

Collect(nd, d) ==
    LET live == Reach(nd, {HeadId, TailId} \cup Range(d))
    IN  [n \in NodeIds |-> IF n \in live THEN nd[n] ELSE FreeSlot]

\* The reference a new LRUNode gets: a slot no live object occupies.
NewRef(nd, d) ==
    LET live == Reach(nd, {HeadId, TailId} \cup Range(d))
    IN  CHOOSE n \in EntryIds \ live : \A m \in EntryIds \ live : n <= m

\* ------------------------------------------------- recency list helpers
\* Each statement of the source is one LET step on the node store nd.

\* Mutant: links the node in before the tail sentinel, the wrong end.
_add_node_at_tail(nd, node) ==
    LET n1 == [nd EXCEPT ![node].next = TailId, ![node].prev = nd[TailId].prev]
        n2 == [n1 EXCEPT ![n1[TailId].prev].next = node]
    IN  [n2 EXCEPT ![TailId].prev = node]

_add_node(nd, node) ==
    LET n1 == [nd EXCEPT ![node].prev = HeadId, ![node].next = nd[HeadId].next]
        n2 == [n1 EXCEPT ![n1[HeadId].next].prev = node]
    IN  [n2 EXCEPT ![HeadId].next = node]

\* node.prev.next, node.next.prev = node.next, node.prev : both right-hand
\* sides are read first, then the targets are assigned left to right.
_remove_node(nd, node) ==
    LET a == nd[node].next
        b == nd[node].prev
        n1 == [nd EXCEPT ![nd[node].prev].next = a]
    IN  [n1 EXCEPT ![n1[node].next].prev = b]

\* Mutant: an access does not refresh the node's position.
_move_to_head_noop(nd, node) == nd

_move_to_head(nd, node) == _add_node(_remove_node(nd, node), node)

\* Mutant: pops the node next to the head sentinel, the most recent one.
_pop_tail_mru(nd) ==
    LET first == nd[HeadId].next
    IN  IF first = TailId
        THEN [nodes |-> nd, last |-> NoNode]
        ELSE [nodes |-> _remove_node(nd, first), last |-> first]

\* Mutant: takes a last node for the sentinel by its key "", not by identity.
_pop_tail_by_key(nd) ==
    LET last == nd[TailId].prev
    IN  IF nd[last].key = ""
        THEN [nodes |-> nd, last |-> NoNode]
        ELSE [nodes |-> _remove_node(nd, last), last |-> last]

\* Returns the popped node (NoNode for None) and the node store after it.
_pop_tail(nd) ==
    LET last == nd[TailId].prev
    IN  IF last = HeadId
        THEN [nodes |-> nd, last |-> NoNode]
        ELSE [nodes |-> _remove_node(nd, last), last |-> last]

\* ------------------------------------------------------------- methods
\* A method takes self = [capacity, cache, nodes, metrics] and yields the
\* fields it leaves behind together with its return value.
Self == [capacity |-> capacity, cache |-> cache, nodes |-> nodes, metrics |-> metrics]

Result(c, nd, m, r) == [cache |-> c, nodes |-> nd, metrics |-> m, ret |-> r]

\* get, line 55
CountRequest(m) == [m EXCEPT !.total_requests = @ + 1]

\* Mutant: a miss is not counted in misses.
get_miss_uncounted(self, key) ==
    Result(self.cache, self.nodes, CountRequest(self.metrics), None)

\* Mutant: a miss also unlinks the least recently used node.
get_miss_pops_tail(self, key) ==
    LET m1 == CountRequest(self.metrics)
    IN  Result(self.cache, _pop_tail(self.nodes).nodes,
               [m1 EXCEPT !.misses = @ + 1], None)

\* get, lines 57-59: the key is not in the table
get_miss(self, key) ==
    LET m1 == CountRequest(self.metrics)
    IN  Result(self.cache, self.nodes, [m1 EXCEPT !.misses = @ + 1], None)

\* Mutant: a hit returns the value without refreshing the node's position.
get_hit_no_refresh(self, key, node) ==
    LET m1 == CountRequest(self.metrics)
    IN  Result(self.cache, self.nodes, [m1 EXCEPT !.hits = @ + 1], self.nodes[node].value)

\* get, lines 60-62: node is the table's node for the key
get_hit(self, key, node) ==
    LET m1 == CountRequest(self.metrics)
        nd == _move_to_head(self.nodes, node)
    IN  Result(self.cache, nd, [m1 EXCEPT !.hits = @ + 1], nd[node].value)

\* Mutant: a stored None is taken for a missing entry.
get_by_value(self, key) ==
    LET node == DictGet(self.cache, key)
    IN  IF node = NoNode \/ self.nodes[node].value = None
        THEN get_miss(self, key) ELSE get_hit(self, key, node)

get(self, key) ==
    LET node == DictGet(self.cache, key)
    IN  IF node = NoNode THEN get_miss(self, key) ELSE get_hit(self, key, node)

\* Mutant: the capacity test is off by one.
AtCapacity_gt(len, cap) == len > cap

\* put, line 67: len(self.cache) >= self.capacity
AtCapacity(len, cap) == len >= cap

\* Mutant: the eviction is carried out but not counted.
put_insert_eviction_uncounted(self, key, value) ==
    LET new_node == NewRef(self.nodes, self.cache)
        nd0 == [self.nodes EXCEPT ![new_node] = LRUNode(key, value)]
        full == AtCapacity(DictLen(self.cache), self.capacity)
        pt == IF full THEN _pop_tail(nd0) ELSE [nodes |-> nd0, last |-> NoNode]
        evict == full /\ pt.last # NoNode
        c1 == IF evict THEN DictDel(self.cache, pt.nodes[pt.last].key) ELSE self.cache
        c2 == DictSet(c1, key, new_node)
        nd2 == _add_node(pt.nodes, new_node)
    IN  Result(c2, nd2, [self.metrics EXCEPT !.cache_size = DictLen(c2)], TRUE)

\* put, lines 66-75: the key is not in the table
put_insert(self, key, value) ==
    LET new_node == NewRef(self.nodes, self.cache)
        nd0 == [self.nodes EXCEPT ![new_node] = LRUNode(key, value)]
        full == AtCapacity(DictLen(self.cache), self.capacity)
        pt == IF full THEN _pop_tail(nd0) ELSE [nodes |-> nd0, last |-> NoNode]
        evict == full /\ pt.last # NoNode
        c1 == IF evict THEN DictDel(self.cache, pt.nodes[pt.last].key) ELSE self.cache
        m1 == IF evict THEN [self.metrics EXCEPT !.evictions = @ + 1] ELSE self.metrics
        c2 == DictSet(c1, key, new_node)
        nd2 == _add_node(pt.nodes, new_node)
    IN  Result(c2, nd2, [m1 EXCEPT !.cache_size = DictLen(c2)], TRUE)

\* Mutant: the update refreshes the position but keeps the old value.
put_update_keeps_value(self, key, value, node) ==
    Result(self.cache, _move_to_head(self.nodes, node), self.metrics, FALSE)

\* Mutant: the update reports a new entry.
put_update_returns_true(self, key, value, node) ==
    LET nd1 == [self.nodes EXCEPT ![node].value = value]
    IN  Result(self.cache, _move_to_head(nd1, node), self.metrics, TRUE)

\* Mutant: no existence test, an existing key goes through the insert path.
put_update_as_insert(self, key, value, node) == put_insert(self, key, value)

\* Mutant: the update looks its key up through get, which counts a hit.
put_update_counted(self, key, value, node) ==
    LET g == get_hit(self, key, node)
        nd1 == [g.nodes EXCEPT ![node].value = value]
    IN  Result(self.cache, nd1, g.metrics, FALSE)

\* put, lines 77-79: node is the table's node for the key
put_update(self, key, value, node) ==
    LET nd1 == [self.nodes EXCEPT ![node].value = value]
    IN  Result(self.cache, _move_to_head(nd1, node), self.metrics, FALSE)

put(self, key, value) ==
    LET node == DictGet(self.cache, key)
    IN  IF node = NoNode THEN put_insert(self, key, value)
                         ELSE put_update(self, key, value, node)

\* Mutant: delete reports a removal also for a key that is not there.
delete_always_true(self, key) ==
    LET node == DictGet(self.cache, key)
    IN  IF node = NoNode
        THEN Result(self.cache, self.nodes, self.metrics, TRUE)
        ELSE LET nd == _remove_node(self.nodes, node)
                 c1 == DictDel(self.cache, key)
             IN  Result(c1, nd, [self.metrics EXCEPT !.cache_size = DictLen(c1)], TRUE)

\* Mutant: the key leaves the table but its node stays linked in the list.
delete_table_only(self, key) ==
    LET node == DictGet(self.cache, key)
    IN  IF node = NoNode
        THEN Result(self.cache, self.nodes, self.metrics, FALSE)
        ELSE LET c1 == DictDel(self.cache, key)
             IN  Result(c1, self.nodes,
                        [self.metrics EXCEPT !.cache_size = DictLen(c1)], TRUE)

delete(self, key) ==
    LET node == DictGet(self.cache, key)
    IN  IF node = NoNode
        THEN Result(self.cache, self.nodes, self.metrics, FALSE)
        ELSE LET nd == _remove_node(self.nodes, node)
                 c1 == DictDel(self.cache, key)
             IN  Result(c1, nd, [self.metrics EXCEPT !.cache_size = DictLen(c1)], TRUE)

\* Mutant: clear starts the metrics afresh.
clear_resets_metrics(self) ==
    LET nd == [self.nodes EXCEPT ![HeadId].next = TailId, ![TailId].prev = HeadId]
    IN  Result(EmptyDict, nd, CacheMetrics(self.capacity), None)

\* Mutant: clear empties the table and leaves the sentinels as they were.
clear_keeps_list(self) ==
    Result(EmptyDict, self.nodes, [self.metrics EXCEPT !.cache_size = 0], None)

\* Mutant: clear relinks the head sentinel only.
clear_relinks_head_only(self) ==
    LET nd == [self.nodes EXCEPT ![HeadId].next = TailId]
    IN  Result(EmptyDict, nd, [self.metrics EXCEPT !.cache_size = 0], None)

clear(self) ==
    LET nd == [self.nodes EXCEPT ![HeadId].next = TailId, ![TailId].prev = HeadId]
    IN  Result(EmptyDict, nd, [self.metrics EXCEPT !.cache_size = 0], None)

size(self) == Result(self.cache, self.nodes, self.metrics, DictLen(self.cache))

\* get_metrics returns the engine's own CacheMetrics object, not a copy.
MetricsRef == "self.metrics"

get_metrics(self) ==
    Result(self.cache, self.nodes,
           [self.metrics EXCEPT !.cache_size = DictLen(self.cache)], MetricsRef)

\* ------------------------------------------------------------ histories
\* lastPut of a key with no put since its last removal: NotPut when it was
\* never put, Removed when a delete, an eviction or a clear took it out.
NotPut == "<not put>"
Removed == "<removed>"
Absent == {NotPut, Removed}

NoStreak == [ok |-> FALSE, puts |-> <<>>, base |-> 0, cleared |-> FALSE]

Without(s, ks) == SelectSeq(s, LAMBDA x : x \notin ks)

StreakKeys(st) == {st.puts[i][1] : i \in 1..Len(st.puts)}

\* The histories after call name(key, value) took the table to r.cache and
\* returned r.ret.  out: the keys the call removed (the deleted key, every
\* key at a clear, the keys a put evicted).
History(name, key, value, r) ==
    LET out == CASE name = "delete" -> IF r.ret = TRUE THEN {key} ELSE {}
                 [] name = "clear"  -> DOMAIN cache
                 [] name = "put"    -> (DOMAIN cache) \ (DOMAIN r.cache)
                 [] OTHER           -> {}
        touch == name = "put" \/ (name = "get" /\ key \in DOMAIN cache)
        base  == Without(touched, out)
    IN  /\ gone' = out
        /\ balance' = balance
                       + (IF name = "put" /\ r.ret = TRUE THEN 1 ELSE 0)
                       - (IF name = "delete" /\ r.ret = TRUE THEN 1 ELSE 0)
                       - (r.metrics.evictions - metrics.evictions)
                       - (IF name = "clear" THEN DictLen(cache) ELSE 0)
        /\ touched' = IF touch THEN <<key>> \o Without(base, {key}) ELSE base
        /\ lastPut' = [k \in Keys |->
                          IF name = "put" /\ k = key THEN value
                          ELSE IF k \in out THEN Removed ELSE lastPut[k]]
        /\ streak' = IF DOMAIN r.cache = {}
                     THEN [ok |-> TRUE, puts |-> <<>>, base |-> r.metrics.evictions,
                           cleared |-> \/ name = "clear"
                                       \/ DOMAIN cache = {} /\ streak.cleared]
                     ELSE IF streak.ok /\ name = "put" /\ key \notin StreakKeys(streak)
                     THEN [streak EXCEPT !.puts = Append(@, <<key, value>>)]
                     ELSE NoStreak

\* The call leaves r behind; objects no longer referenced are dropped.
Returns(name, key, value, r) ==
    /\ cache' = r.cache
    /\ nodes' = Collect(r.nodes, r.cache)
    /\ metrics' = r.metrics
    /\ ret' = r.ret
    /\ History(name, key, value, r)
    /\ UNCHANGED <<capacity, raised, locking, owner, frames, started>>

\* ---------------------------------------------------------------- Init
\* LRUCache(capacity): raises ValueError for capacity <= 0, else an empty
\* cache whose sentinels point at each other.
InitNodes ==
    [n \in NodeIds |->
        IF n = HeadId THEN [LRUNode("", None) EXCEPT !.next = TailId]
        ELSE IF n = TailId THEN [LRUNode("", None) EXCEPT !.prev = HeadId]
        ELSE FreeSlot]

\* Mutant: only negative capacities are refused.
InvalidCapacity_lt(c) == c < 0

\* __init__, line 30: capacity <= 0
InvalidCapacity(c) == c <= 0

\* The threads that call into one cache, and the lock when nobody holds it.
Threads == {"t1", "t2"}
NoThread == "<nobody>"

\* A thread that is in no call.  In a call, pos is the stack of source
\* lines still to run, the current statement first; the other fields are
\* the arguments and local variables of the methods (references to nodes,
\* NoNode for None), what the last call returned and what it raised.
IdleFrame ==
    [name |-> "none", key |-> "", value |-> None, pos |-> <<>>,
     node |-> NoNode, new_node |-> NoNode, tail |-> NoNode, last |-> NoNode,
     arg |-> NoNode, ret |-> None, raised |-> "none"]

\* One caller at a time: every call below runs from its first statement to
\* its return with no other call in between.
Sequential ==
    /\ locking = TRUE
    /\ owner = NoThread
    /\ frames = [t \in Threads |-> IdleFrame]
    /\ started = 0

\* LRUCache(c), lines 29-38
Construct(c) ==
        /\ raised = IF InvalidCapacity(c) THEN "ValueError" ELSE "none"
        /\ capacity = c
        /\ cache = EmptyDict
        /\ nodes = IF InvalidCapacity(c) THEN [n \in NodeIds |-> FreeSlot] ELSE InitNodes
        /\ metrics = CacheMetrics(IF InvalidCapacity(c) THEN 0 ELSE c)
        /\ op = [name |-> "__init__", capacity |-> c]
        /\ ret = None
        /\ touched = <<>>
        /\ lastPut = [k \in Keys |-> NotPut]
        /\ streak = [ok |-> TRUE, puts |-> <<>>, base |-> 0, cleared |-> FALSE]
        /\ gone = {}
        /\ balance = 0

Init == \E c \in CapacityArgs : Construct(c) /\ Sequential

\* -------------------------------------------------------------- actions
\* op records the call just made.  A put also records two facts of the
\* history before it: before, what lastPut said of its key, and follows,
\* the key the call right before it was a get hit on (none: the empty set).
HitKey == IF op.name = "get" /\ op.key \in DOMAIN cache THEN {op.key} ELSE {}

Get(key) ==
    /\ raised = "none"
    /\ metrics.total_requests < MaxRequests
    /\ op' = [name |-> "get", key |-> key]
    /\ Returns("get", key, None, get(Self, key))

Put(key, value) ==
    /\ raised = "none"
    /\ (key \notin DOMAIN cache /\ DictLen(cache) >= capacity)
           => metrics.evictions < MaxEvictions
    /\ op' = [name |-> "put", key |-> key, value |-> value,
              before |-> lastPut[key], follows |-> HitKey]
    /\ Returns("put", key, value, put(Self, key, value))

Delete(key) ==
    /\ raised = "none"
    /\ op' = [name |-> "delete", key |-> key]
    /\ Returns("delete", key, None, delete(Self, key))

Clear ==
    /\ raised = "none"
    /\ op' = [name |-> "clear"]
    /\ Returns("clear", "", None, clear(Self))

Size ==
    /\ raised = "none"
    /\ op' = [name |-> "size"]
    /\ Returns("size", "", None, size(Self))

GetMetrics ==
    /\ raised = "none"
    /\ op' = [name |-> "get_metrics"]
    /\ Returns("get_metrics", "", None, get_metrics(Self))

Next ==
    \/ \E key \in Keys : Get(key)
    \/ \E key \in Keys, value \in Values : Put(key, value)
    \/ \E key \in Keys : Delete(key)
    \/ Clear
    \/ Size
    \/ GetMetrics

Spec == Init /\ [][Next]_vars

\* ---------------------------------------------------------- observers
\* The keys of the recency list read from the head sentinel along next up
\* to the tail sentinel (at most fuel nodes).
RECURSIVE Walk(_, _, _)
Walk(nd, n, fuel) ==
    IF n = TailId \/ n = NoNode \/ fuel = 0 THEN <<>>
    ELSE <<nd[n].key>> \o Walk(nd, nd[n].next, fuel - 1)

ListKeys == Walk(nodes, nodes[HeadId].next, Cardinality(NodeIds))

SeqRange(s) == {s[i] : i \in 1..Len(s)}

Present == DOMAIN cache

\* The value the table's node for key k carries.
ValueOf(k) == nodes[cache[k]].value

LastOf(s) == s[Len(s)]

\* What size() returns in the current state.
SizeNow == size(Self).ret

\* ------------------------------------------------------------- claims

\* C1: after any sequence of get/put/delete/clear on a cache built with
\* capacity c >= 1, 0 <= size() <= c (and the metrics' cache_size stays
\* within max_size).
C1_SizeWithinCapacity ==
    raised = "none" =>
        /\ capacity >= 1
        /\ 0 <= SizeNow /\ SizeNow <= capacity
        /\ 0 <= metrics.cache_size /\ metrics.cache_size <= metrics.max_size

\* A full cache of capacity 2 that has already evicted.
C1_Witness ==
    /\ raised = "none" /\ capacity = 2
    /\ SizeNow = capacity
    /\ metrics.evictions >= 1

\* C2: a put of a key not in the cache at size() = capacity removes exactly
\* one entry, the present key whose last touch is the oldest; every other
\* present key stays with its value (and the new key is in).
C2_EvictsLeastRecentlyTouched ==
    [][(op'.name = "put" /\ op'.key \notin Present /\ SizeNow = capacity) =>
          /\ Len(touched) >= 1
          /\ LET victim == LastOf(touched)
             IN  /\ victim \in Present
                 /\ Present' = (Present \ {victim}) \cup {op'.key}
                 /\ Cardinality(Present \ Present') = 1
                 /\ \A k \in Present \ {victim} : ValueOf(k)' = ValueOf(k)
                 /\ \E k \in Keys : k = op'.key /\ ValueOf(k)' = op'.value]_vars

\* A put of a new key on a full cache of capacity 2 evicted one key, after
\* at least one get hit had touched an entry.
C2_Witness ==
    /\ raised = "none" /\ capacity = 2
    /\ op.name = "put" /\ ret = TRUE
    /\ Cardinality(gone) = 1
    /\ metrics.hits >= 1
    /\ Len(touched) = 2

\* C3: the recency list read from the head sentinel to the tail sentinel
\* lists the present keys in strictly decreasing order of last touch: most
\* recently touched first, least recently touched last.
C3_ListInTouchOrder ==
    raised = "none" =>
        /\ ListKeys = touched
        /\ SeqRange(ListKeys) = Present
        /\ Len(ListKeys) = Cardinality(Present)

\* After a get hit on one of two entries the key read is head-most (the
\* entries were not put in one run from an empty cache).
C3_Witness ==
    /\ raised = "none"
    /\ op.name = "get" /\ ret # None
    /\ Len(ListKeys) = 2
    /\ ListKeys[1] = op.key
    /\ metrics.hits = 1 /\ metrics.evictions = 0 /\ streak.ok = FALSE

\* C4 as stated, for a cache of any capacity: on a full cache, a get hit on
\* k followed at once by a put of a key not in the cache leaves k present.
C4_AnyCapacity ==
    [][(/\ op.name = "get" /\ op.key \in Present
        /\ SizeNow = capacity
        /\ op'.name = "put" /\ op'.key \notin Present)
          => op.key \in Present']_vars

\* C4, amended to capacity >= 2: on a full cache of capacity at least 2, a
\* get hit on k followed at once by a put of a key not in the cache leaves k
\* present with its value.
C4_GetProtectsFromEviction ==
    [][(/\ capacity >= 2
        /\ op.name = "get" /\ op.key \in Present
        /\ SizeNow = capacity
        /\ op'.name = "put" /\ op'.key \notin Present)
          => /\ op.key \in Present'
             /\ \E k \in Present : k = op.key /\ ValueOf(k)' = ValueOf(k)]_vars

\* An evicting put on a full cache of capacity 2 came right after a get
\* hit, and the key that was hit is still present.
C4_Witness ==
    /\ raised = "none" /\ capacity = 2
    /\ op.name = "put" /\ ret = TRUE
    /\ op.follows # {} /\ op.follows \subseteq Present
    /\ Cardinality(gone) = 1

\* C5: from an empty cache of capacity c, c + 1 puts of pairwise distinct
\* keys with no other call in between evict exactly the first key put: it is
\* absent, the other c keys are present with the values put, and evictions
\* has grown by one since the cache was empty (it is 1 on a new cache).
C5_FirstInsertedEvicted ==
    (raised = "none" /\ streak.ok /\ Len(streak.puts) = capacity + 1) =>
        /\ streak.puts[1][1] \notin Present
        /\ gone = {streak.puts[1][1]}
        /\ Present = {streak.puts[i][1] : i \in 2..(capacity + 1)}
        /\ \A i \in 2..(capacity + 1) :
              get(Self, streak.puts[i][1]).ret = streak.puts[i][2]
        /\ SizeNow = capacity
        /\ metrics.evictions = streak.base + 1
        /\ streak.base = 0 => metrics.evictions = 1

\* Three distinct keys were put into an empty cache of capacity 2.
C5_Witness ==
    /\ raised = "none" /\ capacity = 2
    /\ streak.ok /\ Len(streak.puts) = 3
    /\ metrics.evictions = 1

\* C6: get(k) returns the value of the most recent put(k, v) when k has been
\* put and not removed since by delete, eviction or clear, and None
\* otherwise; the get just made returned exactly that.
C6_GetReturnsLastPut ==
    raised = "none" =>
        /\ \A k \in Keys :
              get(Self, k).ret = IF lastPut[k] \in Absent THEN None ELSE lastPut[k]
        /\ op.name = "get" =>
              ret = IF lastPut[op.key] \in Absent THEN None ELSE lastPut[op.key]

\* A get returned the value last put for its key after another key had been
\* evicted and not put again.
C6_Witness ==
    /\ raised = "none"
    /\ op.name = "get" /\ ret = "v1"
    /\ lastPut[op.key] = "v1"
    /\ \E k \in Keys : lastPut[k] = Removed
    /\ metrics.evictions >= 1

\* C7: every get adds exactly 1 to total_requests and exactly 1 to hits
\* (key present) or to misses (key absent), never both; hits + misses =
\* total_requests after any sequence of calls.
C7_HitsPlusMisses ==
    /\ [](raised = "none" => metrics.hits + metrics.misses = metrics.total_requests)
    /\ [][op'.name = "get" =>
            /\ metrics'.total_requests = metrics.total_requests + 1
            /\ IF op'.key \in Present
               THEN /\ metrics'.hits = metrics.hits + 1
                    /\ metrics'.misses = metrics.misses
               ELSE /\ metrics'.misses = metrics.misses + 1
                    /\ metrics'.hits = metrics.hits]_vars

\* Gets have both hit and missed.
C7_Witness ==
    /\ raised = "none" /\ op.name = "get"
    /\ metrics.hits >= 1 /\ metrics.misses >= 1

\* C8: put(k, v) returns true exactly when k was not in the cache right
\* before the call and false exactly when it was, also for a key that was
\* removed earlier; either way k is present afterwards with value v.
C8_PutReturnsInserted ==
    [][op'.name = "put" =>
          /\ ret' = (op'.key \notin Present)
          /\ op'.key \in Present'
          /\ \E k \in Keys : k = op'.key /\ ValueOf(k)' = op'.value]_vars

\* A put of a key that had been removed earlier returned true.
C8_Witness ==
    /\ raised = "none"
    /\ op.name = "put" /\ ret = TRUE
    /\ op.before = Removed

\* C9: put(k, v) on a key already present, at any fill level, leaves size(),
\* the set of present keys, the evictions counter (and all other metrics)
\* and every other entry's value and relative order unchanged; k carries v
\* and is the head-most entry.
C9_UpdateKeepsSizeAndKeys ==
    [][(op'.name = "put" /\ op'.key \in Present) =>
          /\ SizeNow' = SizeNow
          /\ Present' = Present
          /\ metrics' = metrics
          /\ gone' = {}
          /\ ListKeys' = <<op'.key>> \o Without(ListKeys, {op'.key})
          /\ \A k \in Present :
                ValueOf(k)' = IF k = op'.key THEN op'.value ELSE ValueOf(k)]_vars

\* An update on a full cache of capacity 2 changed the key's value and left
\* the key head-most.
C9_Witness ==
    /\ raised = "none" /\ capacity = 2
    /\ op.name = "put" /\ ret = FALSE
    /\ SizeNow = capacity
    /\ op.before # op.value
    /\ ListKeys[1] = op.key
    /\ streak.ok = FALSE

\* C10: hits, misses and total_requests are changed by get only: every put
\* (insert, update, evicting insert), delete, clear, size and get_metrics
\* call leaves all three as they were.
C10_OnlyGetCounts ==
    [][op'.name \in {"put", "delete", "clear", "size", "get_metrics"} =>
          /\ metrics'.hits = metrics.hits
          /\ metrics'.misses = metrics.misses
          /\ metrics'.total_requests = metrics.total_requests]_vars

\* An update put was made after gets had been counted.
C10_Witness ==
    /\ raised = "none"
    /\ op.name = "put" /\ ret = FALSE
    /\ metrics.total_requests = 2 /\ metrics.hits = 1

\* C11: delete(k) returns true exactly when k was present.  Present: k leaves
\* the table and the recency list, size() drops by exactly 1, and the other
\* entries keep their values and relative order.  Absent: it returns false,
\* raises nothing and changes neither table, list nor metrics.
C11_DeleteRemovesOnlyItsKey ==
    [][op'.name = "delete" =>
          /\ ret' = (op'.key \in Present)
          /\ raised' = "none"
          /\ IF op'.key \in Present
             THEN /\ Present' = Present \ {op'.key}
                  /\ ListKeys' = Without(ListKeys, {op'.key})
                  /\ Len(ListKeys') = Len(ListKeys) - 1
                  /\ SizeNow' = SizeNow - 1
                  /\ \A k \in Present' : ValueOf(k)' = ValueOf(k)
             ELSE /\ cache' = cache
                  /\ nodes' = nodes
                  /\ metrics' = metrics]_vars

\* A delete removed one of two entries; the other one is still listed.
C11_Witness ==
    /\ raised = "none"
    /\ op.name = "delete" /\ ret = TRUE
    /\ gone = {op.key}
    /\ Len(ListKeys) = 1 /\ ListKeys[1] # op.key

\* C12: after clear(), in any state (also on an empty cache), size() = 0 and
\* every key is absent from table and list, while hits, misses, evictions
\* and total_requests are what they were before the call.
C12_ClearKeepsCounters ==
    [][op'.name = "clear" =>
          /\ SizeNow' = 0
          /\ \A k \in Keys : DictGet(cache, k)' = NoNode
          /\ ListKeys' = <<>>
          /\ metrics'.hits = metrics.hits
          /\ metrics'.misses = metrics.misses
          /\ metrics'.evictions = metrics.evictions
          /\ metrics'.total_requests = metrics.total_requests]_vars

\* A clear removed two entries of a cache that had counted a hit, a miss
\* and an eviction.
C12_Witness ==
    /\ raised = "none"
    /\ op.name = "clear" /\ Cardinality(gone) = 2
    /\ metrics.hits >= 1 /\ metrics.misses >= 1 /\ metrics.evictions >= 1

\* The nodes of the recency list, read from the head sentinel along next.
RECURSIVE WalkNodes(_, _, _)
WalkNodes(nd, n, fuel) ==
    IF n = TailId \/ n = NoNode \/ fuel = 0 THEN <<>>
    ELSE <<n>> \o WalkNodes(nd, nd[n].next, fuel - 1)

ListNodes == WalkNodes(nodes, nodes[HeadId].next, Cardinality(NodeIds))

\* The chain of next links from the head sentinel: head, the entries, tail.
Chain == <<HeadId>> \o ListNodes \o <<TailId>>

\* C13: between calls, the keys of the table are the keys of the non-sentinel
\* nodes reached from the head sentinel along next, each once, the chain
\* ends at the tail sentinel with node.next.prev = node throughout, every
\* table entry refers to the list node carrying its key, and
\* metrics.cache_size = len(table) = number of list entries.
C13_TableMatchesList ==
    raised = "none" =>
        /\ SeqRange(ListKeys) = Present
        /\ Len(ListKeys) = Cardinality(Present)
        /\ \A i \in 1..(Len(Chain) - 1) :
              /\ nodes[Chain[i]].next = Chain[i + 1]
              /\ nodes[Chain[i + 1]].prev = Chain[i]
        /\ nodes[HeadId].prev = NoNode /\ nodes[TailId].next = NoNode
        /\ \A i, j \in 1..Len(Chain) : Chain[i] = Chain[j] => i = j
        /\ \A k \in Present :
              /\ cache[k] \in SeqRange(ListNodes)
              /\ nodes[cache[k]].key = k
        /\ metrics.cache_size = DictLen(cache)
        /\ DictLen(cache) = Len(ListNodes)

\* Two entries are linked after an eviction; the last call put back a key
\* that had been removed.
C13_Witness ==
    /\ raised = "none"
    /\ Len(ListNodes) = 2
    /\ metrics.evictions >= 1
    /\ \E k \in Keys : lastPut[k] = Removed
    /\ op.name = "put" /\ op.before = Removed

\* C14: size() is the number of puts that returned true, less the deletes
\* that returned true, the evictions counted and the entries removed by
\* clear calls.
C14_SizeIsBalance ==
    raised = "none" => SizeNow = balance

\* One entry is left after an eviction and a delete, every key having been
\* put at some time.
C14_Witness ==
    /\ raised = "none"
    /\ SizeNow = 1 /\ balance = 1
    /\ metrics.evictions >= 1
    /\ op.name = "delete" /\ ret = TRUE
    /\ \A k \in Keys : lastPut[k] # NotPut

\* C15: evictions grows by exactly 1 on each put of a key not in the cache
\* made at size() = capacity and is changed by no other call; a put never
\* removes more than one entry (exactly one when it evicts).
C15_OneEvictionPerFullInsert ==
    [][LET evicting == op'.name = "put" /\ op'.key \notin Present /\ SizeNow = capacity
       IN  /\ metrics'.evictions = metrics.evictions + (IF evicting THEN 1 ELSE 0)
           /\ op'.name = "put" =>
                 Cardinality(Present \ Present') = (IF evicting THEN 1 ELSE 0)]_vars

\* The second eviction of a cache of capacity 2.
C15_Witness ==
    /\ raised = "none" /\ capacity = 2
    /\ op.name = "put" /\ ret = TRUE
    /\ Cardinality(gone) = 1
    /\ metrics.evictions = 2

\* C16: with capacity 1, a put of a key not in the cache made while the
\* cache holds an entry evicts that entry: the old key is absent, only the
\* new key is retrievable, with its value, and evictions has grown by 1.
C16_CapacityOneEvictsSole ==
    [][(capacity = 1 /\ op'.name = "put" /\ op'.key \notin Present /\ Present # {}) =>
          /\ Present' = {op'.key}
          /\ gone' = Present
          /\ \A k \in Keys :
                get(Self, k).ret' = IF k = op'.key THEN op'.value ELSE None
          /\ metrics'.evictions = metrics.evictions + 1]_vars

\* A put on a cache of capacity 1 replaced the entry that was there.
C16_Witness ==
    /\ raised = "none" /\ capacity = 1
    /\ op.name = "put" /\ ret = TRUE
    /\ Cardinality(gone) = 1
    /\ Present = {op.key} /\ ValueOf(op.key) = "v1"

\* C17: constructing with capacity <= 0 raises ValueError and yields no
\* cache (no method is ever called on it); constructing with capacity >= 1
\* yields an empty cache: size 0, all counters 0, max_size = capacity.
C17_ConstructorChecksCapacity ==
    /\ raised \in {"none", "ValueError"}
    /\ raised = "ValueError" => (op.name = "__init__" /\ op.capacity <= 0)
    /\ op.name = "__init__" =>
          IF op.capacity <= 0
          THEN raised = "ValueError"
          ELSE /\ raised = "none"
               /\ capacity = op.capacity
               /\ SizeNow = 0 /\ cache = EmptyDict /\ ListKeys = <<>>
               /\ metrics = [hits |-> 0, misses |-> 0, evictions |-> 0,
                             total_requests |-> 0, cache_size |-> 0,
                             max_size |-> op.capacity]

\* The constructor was called with capacity 0 and raised.
C17_Witness ==
    /\ op.name = "__init__" /\ op.capacity = 0
    /\ raised = "ValueError"

\* The fields a caller reads through a returned value r when the engine's
\* metrics are m: the engine's own object for MetricsRef, else r itself.
Held(r, m) == IF r = MetricsRef THEN m ELSE r

\* C18: the value get_metrics returns is a snapshot: at the call its fields
\* are the counters, with cache_size the table's length, and the next cache
\* call does not change the fields of the value already returned.
C18_MetricsIsSnapshot ==
    [][/\ op'.name = "get_metrics" =>
             Held(ret', metrics') = [metrics EXCEPT !.cache_size = DictLen(cache)]
       /\ op.name = "get_metrics" =>
             Held(ret, metrics') = Held(ret, metrics)]_vars

\* ------------------------------------------------------ float arithmetic
\* CacheMetrics.hit_rate and miss_rate are Python floats (IEEE 754 binary64,
\* round to nearest, ties to even).  A non-negative float is [e, m]: m holds
\* the Precision bits of the significand, most significant first, and e is
\* the exponent of m[1]; its value is the sum of m[i] * 2^(e - i + 1).
Precision == 53

Zeros(n) == [i \in 1..n |-> 0]

Float0 == [e |-> 0, m |-> Zeros(Precision)]

IsZero(x) == \A i \in 1..Len(x.m) : x.m[i] = 0

\* b + 1 on a bit sequence (one bit longer when every bit was 1).
Inc(b) ==
    LET zs == {i \in 1..Len(b) : b[i] = 0}
    IN  IF zs = {} THEN <<1>> \o Zeros(Len(b))
        ELSE LET z == CHOOSE i \in zs : \A j \in zs : j <= i
             IN  SubSeq(b, 1, z - 1) \o <<1>> \o Zeros(Len(b) - z)

\* The carry into bit i when a and b, of one length, are added: some lower
\* bit j generates a carry and every bit between i and j passes it on.
CarryInto(a, b, i) ==
    \E j \in (i + 1)..Len(a) :
        /\ a[j] + b[j] = 2
        /\ \A k \in (i + 1)..(j - 1) : a[k] + b[k] = 1

\* The sum of two bit sequences, the shorter one extended on the left; no
\* leading zero bit.
AddBits(a, b) ==
    LET width == 1 + (IF Len(a) > Len(b) THEN Len(a) ELSE Len(b))
        xs    == Zeros(width - Len(a)) \o a
        ys    == Zeros(width - Len(b)) \o b
        total == [i \in 1..width |->
                    (xs[i] + ys[i] + (IF CarryInto(xs, ys, i) THEN 1 ELSE 0)) % 2]
    IN  IF total[1] = 1 THEN total ELSE Tail(total)

\* The float nearest to the exact value whose bits are b (b[1] = 1, of
\* exponent e) followed by more non-zero bits iff sticky; ties to even.
Round(b, e, sticky) ==
    IF Len(b) <= Precision
    THEN [e |-> e, m |-> b \o Zeros(Precision - Len(b))]
    ELSE LET keep  == SubSeq(b, 1, Precision)
             guard == b[Precision + 1]
             rest  == sticky \/ \E i \in (Precision + 2)..Len(b) : b[i] = 1
             up    == guard = 1 /\ (rest \/ keep[Precision] = 1)
             r     == IF up THEN Inc(keep) ELSE keep
         IN  IF Len(r) > Precision
             THEN [e |-> e + 1, m |-> SubSeq(r, 1, Precision)]
             ELSE [e |-> e, m |-> r]

\* The n low bits of the natural number q, most significant first.
NatToBits(q, n) == [i \in 1..n |-> (q \div 2^(n - i)) % 2]

\* The next n quotient bits of r / t (r < t), by long division in chunks
\* of at most ChunkBits bits, and the remainder left after them.
ChunkBits == 12

RECURSIVE DivBits(_, _, _)
DivBits(r, t, n) ==
    IF n = 0 THEN <<>>
    ELSE LET c == IF n < ChunkBits THEN n ELSE ChunkBits
         IN  NatToBits((r * 2^c) \div t, c) \o DivBits((r * 2^c) % t, t, n - c)

RECURSIVE DivRem(_, _, _)
DivRem(r, t, n) ==
    IF n = 0 THEN r
    ELSE LET c == IF n < ChunkBits THEN n ELSE ChunkBits
         IN  DivRem((r * 2^c) % t, t, n - c)

\* The least k with h * 2^k >= t (h > 0).
RECURSIVE ShiftUp(_, _)
ShiftUp(h, t) == IF h >= t THEN 0 ELSE 1 + ShiftUp(2 * h, t)

\* The greatest j with t * 2^j <= h (h >= t > 0).
RECURSIVE ShiftDown(_, _)
ShiftDown(h, t) == IF 2 * t > h THEN 0 ELSE 1 + ShiftDown(h, 2 * t)

\* int / int, true division: the float nearest to h / t (h >= 0, t > 0).
\* The leading quotient bit is 1; Precision more bits follow it, the last
\* one to round on, and the remainder tells whether the quotient is exact.
FloatDiv(h, t) ==
    IF h = 0 THEN Float0
    ELSE LET k  == IF h >= t THEN 0 ELSE ShiftUp(h, t)
             j  == IF h >= t THEN ShiftDown(h, t) ELSE 0
             r0 == h * 2^k
             t0 == t * 2^j
         IN  Round(<<1>> \o DivBits(r0 - t0, t0, Precision), j - k,
                   DivRem(r0 - t0, t0, Precision) # 0)

\* float * 100: the float nearest to the exact product (100 = 64 + 32 + 4).
FloatMul100(x) ==
    IF IsZero(x) THEN Float0
    ELSE LET p == AddBits(AddBits(x.m \o Zeros(6), x.m \o Zeros(5)), x.m \o Zeros(2))
         IN  Round(p, x.e - (Precision - 1) + (Len(p) - 1), FALSE)

\* float + float for non-negative floats.
FloatAdd(x, y) ==
    IF IsZero(x) THEN y
    ELSE IF IsZero(y) THEN x
    ELSE LET hi == IF x.e >= y.e THEN x ELSE y
             lo == IF x.e >= y.e THEN y ELSE x
             d  == hi.e - lo.e
             s  == AddBits(hi.m \o Zeros(d), lo.m)
         IN  Round(s, lo.e - (Precision - 1) + (Len(s) - 1), FALSE)

\* The float of a small natural number given by its bits.
FloatOfBits(b) == [e |-> Len(b) - 1, m |-> b \o Zeros(Precision - Len(b))]

\* The natural number a bit sequence stands for (fewer than 31 bits).
RECURSIVE BitsToNat(_)
BitsToNat(b) ==
    IF b = <<>> THEN 0
    ELSE IF Len(b) = 1 THEN b[1]
    ELSE LET cut == Len(b) \div 2
         IN  BitsToNat(SubSeq(b, 1, cut)) * 2^(Len(b) - cut)
             + BitsToNat(SubSeq(b, cut + 1, Len(b)))

\* x * 100 rounded to an integer, ties to even, from the exact bits of x:
\* the number of hundredths that format(x, ".2f") prints (0 <= x < 2^20).
Hundredths(x) ==
    IF IsZero(x) THEN 0
    ELSE LET prod    == AddBits(AddBits(x.m \o Zeros(6), x.m \o Zeros(5)),
                                x.m \o Zeros(2))
             fracLen == (Precision - 1) - x.e
             padded  == IF fracLen >= Len(prod)
                        THEN Zeros(fracLen - Len(prod) + 1) \o prod
                        ELSE prod
             whole   == BitsToNat(SubSeq(padded, 1, Len(padded) - fracLen))
             frac    == SubSeq(padded, Len(padded) - fracLen + 1, Len(padded))
             half    == frac # <<>> /\ frac[1] = 1
             more    == \E i \in 2..Len(frac) : frac[i] = 1
         IN  IF half /\ (more \/ whole % 2 = 1) THEN whole + 1 ELSE whole

\* A number of hundredths n as "<whole>.<two digits>%".
FormatHundredths(n) ==
    ToString(n \div 100) \o "." \o ToString((n % 100) \div 10)
        \o ToString(n % 10) \o "%"

\* f"{x:.2f}%", line 110
FormatPercent(x) == FormatHundredths(Hundredths(x))

\* The counts of requests the specifications below can reach.
MaxCount == 3

MaxTotal == IF MaxCount > MaxRequests THEN MaxCount ELSE MaxRequests

\* count / total_requests * 100, lines 17 and 20
Percentage(count, total) == FloatMul100(FloatDiv(count, total))

\* Percentage for every count within the bounds, computed once.
Percentages ==
    [total \in 1..MaxTotal |-> [count \in 0..total |-> Percentage(count, total)]]

\* Mutant: the rate is left a fraction, not a percentage.
hit_rate_fraction(m) ==
    IF m.total_requests # 0 THEN FloatDiv(m.hits, m.total_requests)
    ELSE Float0

\* CacheMetrics.hit_rate, line 17
hit_rate(m) ==
    IF m.total_requests # 0 THEN Percentages[m.total_requests][m.hits]
    ELSE Float0

\* CacheMetrics.miss_rate, line 20
miss_rate(m) ==
    IF m.total_requests # 0 THEN Percentages[m.total_requests][m.misses]
    ELSE Float0

\* f"{m.hit_rate:.2f}%" and f"{m.miss_rate:.2f}%", line 110, for every
\* count within the bounds, computed once.
HitRateText ==
    [total \in 0..MaxTotal |-> [count \in 0..total |->
        FormatPercent(hit_rate([hits |-> count, total_requests |-> total]))]]

MissRateText ==
    [total \in 0..MaxTotal |-> [count \in 0..total |->
        FormatPercent(miss_rate([misses |-> count, total_requests |-> total]))]]

\* ------------------------------------------------------ ProductPageCache
\* The facade object: its only field is the engine, line 100.
Facade == [cache |-> Self]

\* get_product, line 102
get_product(self, product_id) == get(self.cache, product_id)

\* Mutant: a product already cached is left as it is.
cache_product_if_absent(self, product_id, product_data) ==
    IF product_id \in DOMAIN self.cache.cache
    THEN Result(self.cache.cache, self.cache.nodes, self.cache.metrics, FALSE)
    ELSE put(self.cache, product_id, product_data)

\* cache_product, line 104
cache_product(self, product_id, product_data) ==
    put(self.cache, product_id, product_data)

\* get_stats, lines 106-110: m is the engine's metrics object after
\* get_metrics has refreshed its cache_size.
get_stats(self) ==
    LET called == get_metrics(self.cache)
        m      == Held(called.ret, called.metrics)
    IN  Result(called.cache, called.nodes, called.metrics,
               [size           |-> m.cache_size,
                capacity       |-> m.max_size,
                hits           |-> m.hits,
                misses         |-> m.misses,
                evictions      |-> m.evictions,
                total_requests |-> m.total_requests,
                hit_rate       |-> HitRateText[m.total_requests][m.hits],
                miss_rate      |-> MissRateText[m.total_requests][m.misses]])

GetProduct(product_id) ==
    /\ raised = "none"
    /\ metrics.total_requests < MaxRequests
    /\ op' = [name |-> "get_product", key |-> product_id]
    /\ Returns("get", product_id, None, get_product(Facade, product_id))

CacheProduct(product_id, product_data) ==
    /\ raised = "none"
    /\ (product_id \notin DOMAIN cache /\ DictLen(cache) >= capacity)
           => metrics.evictions < MaxEvictions
    /\ op' = [name |-> "cache_product", key |-> product_id, value |-> product_data]
    /\ Returns("put", product_id, product_data,
               cache_product(Facade, product_id, product_data))

GetStats ==
    /\ raised = "none"
    /\ op' = [name |-> "get_stats"]
    /\ Returns("get_metrics", "", None, get_stats(Facade))

NextFacade ==
    \/ \E product_id \in Keys : GetProduct(product_id)
    \/ \E product_id \in Keys, product_data \in Values :
           CacheProduct(product_id, product_data)
    \/ GetStats

\* ProductPageCache(capacity) constructs LRUCache(capacity) and nothing else.
SpecFacade == Init /\ [][NextFacade]_vars

\* The engine's state after a call that left r behind.
Leaves(r) ==
    /\ cache' = r.cache
    /\ nodes' = Collect(r.nodes, r.cache)
    /\ metrics' = r.metrics

\* C19: every get_product and cache_product call returns what get and put
\* return on the engine in the same state and leaves the engine as they
\* do, and get_stats reports size, capacity, hits, misses, evictions and
\* total_requests of the engine's metrics; the state of a ProductPageCache
\* is the state of its engine.
C19_FacadeDelegates ==
    [][/\ op'.name = "get_product" =>
            /\ ret' = get(Self, op'.key).ret
            /\ Leaves(get(Self, op'.key))
       /\ op'.name = "cache_product" =>
            /\ ret' = put(Self, op'.key, op'.value).ret
            /\ Leaves(put(Self, op'.key, op'.value))
       /\ op'.name = "get_stats" =>
            /\ Leaves(get_metrics(Self))
            /\ ret'.size = DictLen(cache') /\ ret'.size = metrics'.cache_size
            /\ ret'.capacity = capacity /\ ret'.capacity = metrics'.max_size
            /\ ret'.hits = metrics'.hits
            /\ ret'.misses = metrics'.misses
            /\ ret'.evictions = metrics'.evictions
            /\ ret'.total_requests = metrics'.total_requests]_vars

\* A facade that has answered a hit and a miss, has evicted a product and
\* then reports its statistics.
C19_Witness ==
    /\ op.name = "get_stats"
    /\ ret.hits = 1 /\ ret.misses = 1 /\ ret.evictions = 1
    /\ ret.size = capacity

\* ------------------------------------------------- hit_rate and miss_rate
\* m.hit_rate and m.miss_rate are read-only properties of the engine's
\* metrics object: reading one changes nothing.
ReadRate(name, rate) ==
    /\ raised = "none"
    /\ op' = [name |-> name]
    /\ Returns(name, "", None, Result(cache, nodes, metrics, rate))

HitRate == ReadRate("hit_rate", hit_rate(metrics))

MissRate == ReadRate("miss_rate", miss_rate(metrics))

\* get, with up to MaxCount requests.
Request(key) ==
    /\ raised = "none"
    /\ metrics.total_requests < MaxCount
    /\ op' = [name |-> "get", key |-> key]
    /\ Returns("get", key, None, get(Self, key))

\* The engine with one stored key, requests for it and for a key never
\* stored, and reads of the two rates.
NextRates ==
    \/ \E key \in {"k1", "k2"} : Request(key)
    \/ Put("k1", "v1")
    \/ Delete("k1")
    \/ Clear
    \/ HitRate
    \/ MissRate

SpecRates == Init /\ [][NextRates]_vars

\* 100.0
Float100 == FloatOfBits(<<1, 1, 0, 0, 1, 0, 0>>)

\* x is 100.0 or one of the two floats next to it.
NearFloat100(x) ==
    /\ x.e = Float100.e
    /\ \/ x.m = Float100.m
       \/ x.m = Inc(Float100.m)
       \/ Inc(x.m) = Float100.m

\* count / total * 100 in hundredths, rounded to nearest, in integers.
NearestHundredths(count, total) == (2 * 10000 * count + total) \div (2 * total)

\* Both rates are 0.0 without requests; with requests each is the float
\* of its count / total_requests * 100, right to the hundredth.
RatesAsComputed ==
    /\ op.name = "hit_rate" => ret = hit_rate(metrics)
    /\ op.name = "miss_rate" => ret = miss_rate(metrics)
    /\ metrics.total_requests = 0 =>
           hit_rate(metrics) = Float0 /\ miss_rate(metrics) = Float0
    /\ metrics.total_requests # 0 =>
           /\ Hundredths(hit_rate(metrics))
                  = NearestHundredths(metrics.hits, metrics.total_requests)
           /\ Hundredths(miss_rate(metrics))
                  = NearestHundredths(metrics.misses, metrics.total_requests)

\* C20 as stated: the rates are 0.0 without requests, otherwise
\* count / total_requests * 100, and their sum is 100.
C20_RatesSumTo100 ==
    /\ RatesAsComputed
    /\ metrics.total_requests # 0 =>
           FloatAdd(hit_rate(metrics), miss_rate(metrics)) = Float100

\* C20: the rates are 0.0 without requests (also after put, delete and
\* clear), otherwise count / total_requests * 100 as floats, and their sum
\* is 100.0 or a float next to it.
C20_RatesSumNear100 ==
    /\ RatesAsComputed
    /\ metrics.total_requests # 0 =>
           NearFloat100(FloatAdd(hit_rate(metrics), miss_rate(metrics)))

\* One hit and two misses: the rates read 33.33... and 66.66..., and their
\* sum is not 100.0.
C20_Witness ==
    /\ op.name = "miss_rate"
    /\ metrics.hits = 1 /\ metrics.misses = 2
    /\ Hundredths(hit_rate(metrics)) = 3333
    /\ Hundredths(ret) = 6667
    /\ FloatAdd(hit_rate(metrics), ret) # Float100

\* C22: a get of a key that is not in the table returns None and leaves
\* the table, the recency order, every stored value, the node objects, the
\* evictions counter and size() as they were; of the counters only
\* total_requests and misses change, by one each.
C22_MissChangesOnlyCounters ==
    [][(op'.name = "get" /\ op'.key \notin DOMAIN cache) =>
           /\ ret' = None
           /\ cache' = cache
           /\ nodes' = nodes
           /\ ListKeys' = ListKeys
           /\ \A k \in DOMAIN cache : ValueOf(k)' = ValueOf(k)
           /\ SizeNow' = SizeNow
           /\ metrics'.evictions = metrics.evictions
           /\ metrics' = [metrics EXCEPT !.total_requests = @ + 1,
                                         !.misses = @ + 1]]_vars

\* A miss on a full cache of two entries.
C22_Witness ==
    /\ op.name = "get"
    /\ op.key \notin DOMAIN cache
    /\ ret = None
    /\ metrics.misses = 1
    /\ DictLen(cache) = 2

\* C23: clear leaves the two sentinels linked to each other, and with them
\* the very table and node objects of a cache just constructed, the counters
\* kept.  In a run of puts of distinct keys that follows a clear, as long as
\* there are at most capacity of them no eviction is counted and every key
\* put is present; from then on each put evicts the oldest key of the run
\* that is still present.
C23_ClearedIsFresh ==
    /\ [][op'.name = "clear" =>
             /\ nodes'[HeadId].next = TailId /\ nodes'[TailId].prev = HeadId
             /\ cache' = EmptyDict
             /\ nodes' = InitNodes
             /\ metrics' = [metrics EXCEPT !.cache_size = 0]]_vars
    /\ []((raised = "none" /\ streak.ok /\ streak.cleared) =>
             LET n    == Len(streak.puts)
                 over == IF n > capacity THEN n - capacity ELSE 0
             IN  /\ Present = {streak.puts[i][1] : i \in (over + 1)..n}
                 /\ metrics.evictions = streak.base + over
                 /\ n >= 1 => (op.name = "put" /\ ret = TRUE)
                 /\ n >= 1 => gone = IF over >= 1 THEN {streak.puts[over][1]} ELSE {})

\* After an eviction and a clear, three distinct keys were put into the
\* cache of capacity 2: the first of them was evicted.
C23_Witness ==
    /\ raised = "none" /\ capacity = 2
    /\ streak.ok /\ streak.cleared
    /\ Len(streak.puts) = 3
    /\ streak.base = 1
    /\ metrics.evictions = 2

Sentinels == {HeadId, TailId}

\* What the calls leave of the entries other than that of key k: the same
\* nodes under the same keys with the same values, but for the keys out.
OthersKept(k, out) ==
    /\ DOMAIN cache' \ {k} = DOMAIN cache \ ({k} \cup out)
    /\ \A j \in DOMAIN cache' \ {k} : cache'[j] = cache[j] /\ ValueOf(j)' = ValueOf(j)

\* C25: the empty string, the key both sentinel nodes carry, behaves like
\* any other key.  In every state of a constructed cache: the sentinels are
\* not in the table, _pop_tail does not return one, and they stay in place
\* (head first, tail last, key "" and no value, the list between them
\* holding exactly the table's keys, "" among them only when it is an
\* entry); the entry of "" holds the value last put for it; and the
\* statements that can raise find what they need (every entry's node has
\* both neighbours, and the node _pop_tail returns carries a key of the
\* table).  In every step: put("", v) returns whether "" was new, leaves an
\* entry node for "" with value v at the front of the list, and removes at
\* most the key it evicts; get("") returns the entry's value and moves it
\* to the front, or None when there is no entry; delete("") returns whether
\* there was an entry and removes it alone; and a put of a new key into a
\* full cache whose least recently used entry is that of "" evicts exactly
\* that entry and counts one eviction.
C25_EmptyKeyIsOrdinary ==
    /\ [](raised = "none" =>
            /\ Range(cache) \cap Sentinels = {}
            /\ _pop_tail(nodes).last \notin Sentinels
            /\ nodes[HeadId].key = "" /\ nodes[HeadId].value = None
            /\ nodes[TailId].key = "" /\ nodes[TailId].value = None
            /\ nodes[HeadId].prev = NoNode /\ nodes[TailId].next = NoNode
            /\ SeqRange(ListKeys) = DOMAIN cache /\ Len(ListKeys) = DictLen(cache)
            /\ DictLen(cache) <= capacity
            /\ "" \in DOMAIN cache => ValueOf("") = lastPut[""]
            /\ "" \notin DOMAIN cache => lastPut[""] \in Absent
            /\ \A k \in DOMAIN cache :
                   nodes[cache[k]].prev # NoNode /\ nodes[cache[k]].next # NoNode
            /\ LET last == _pop_tail(nodes).last
               IN  last # NoNode => nodes[last].key \in DOMAIN cache)
    /\ [][/\ (op'.name = "put" /\ op'.key = "") =>
                /\ ret' = ("" \notin DOMAIN cache)
                /\ "" \in DOMAIN cache' /\ cache'[""] \in EntryIds
                /\ ValueOf("")' = op'.value
                /\ ListKeys' = <<"">> \o Without(ListKeys, {""} \cup gone')
                /\ gone' \subseteq DOMAIN cache \ {""} /\ Cardinality(gone') <= 1
                /\ OthersKept("", gone')
          /\ (op'.name = "get" /\ op'.key = "") =>
                /\ ret' = IF "" \in DOMAIN cache THEN ValueOf("") ELSE None
                /\ cache' = cache
                /\ ListKeys' = IF "" \in DOMAIN cache
                               THEN <<"">> \o Without(ListKeys, {""}) ELSE ListKeys
                /\ \A j \in DOMAIN cache : ValueOf(j)' = ValueOf(j)
          /\ (op'.name = "delete" /\ op'.key = "") =>
                /\ ret' = ("" \in DOMAIN cache)
                /\ "" \notin DOMAIN cache'
                /\ ListKeys' = Without(ListKeys, {""})
                /\ OthersKept("", {})
          /\ (/\ op'.name = "put" /\ op'.key \notin DOMAIN cache
              /\ AtCapacity(DictLen(cache), capacity)
              /\ "" \in DOMAIN cache /\ LastOf(ListKeys) = "") =>
                /\ ret' = TRUE /\ gone' = {""}
                /\ metrics'.evictions = metrics.evictions + 1
                /\ ListKeys' = <<op'.key>> \o Without(ListKeys, {""})
                /\ OthersKept(op'.key, {""})]_vars

\* A put of another key has just evicted the entry of "" (the cache was
\* full and "" was its least recently used key).
C25_Witness ==
    /\ raised = "none" /\ op.name = "put" /\ op.key # "" /\ ret = TRUE
    /\ gone = {""} /\ metrics.evictions >= 1
    /\ DictLen(cache) = capacity /\ capacity = 2

\* C26: whether a get counts as a hit or as a miss depends only on whether
\* its key is in the table, not on the value stored.  A get of a key in the
\* table returns the stored value, counts one request and one hit and no
\* miss, and moves the key to the front of the recency list; when the last
\* put of the key stored None it does all that and returns None.  A get of
\* a key not in the table returns None and counts one request and one miss.
C26_HitIsMembership ==
    [][op'.name = "get" =>
          IF op'.key \in DOMAIN cache
          THEN /\ ret' = ValueOf(op'.key)
               /\ lastPut[op'.key] = None => ret' = None
               /\ metrics' = [metrics EXCEPT !.total_requests = @ + 1, !.hits = @ + 1]
               /\ ListKeys' = <<op'.key>> \o Without(ListKeys, {op'.key})
               /\ cache' = cache
          ELSE /\ ret' = None
               /\ metrics' = [metrics EXCEPT !.total_requests = @ + 1, !.misses = @ + 1]
               /\ ListKeys' = ListKeys]_vars

\* put(k, None) into a cache of two entries, then get(k): it returned None,
\* the only request so far is counted as a hit, and k is the most recent key.
C26_Witness ==
    /\ op.name = "get" /\ op.key \in DOMAIN cache /\ ret = None
    /\ lastPut[op.key] = None /\ ValueOf(op.key) = None
    /\ metrics.hits = 1 /\ metrics.misses = 0 /\ metrics.total_requests = 1
    /\ DictLen(cache) = 2 /\ Head(ListKeys) = op.key

\* ----------------------------------------------- statements and threads
\* The methods once more, one source statement per step, so that the calls
\* of several threads can interleave between statements.  A statement is
\* named by its source line.  A line that only calls a helper touches no
\* shared object by itself and is taken together with the first statement
\* of the helper.  The histories above belong to whole calls and stand
\* still here.
MaxCalls == 2

\* The node objects some frame still refers to.
Locals(fs) ==
    UNION {{fs[t].node, fs[t].new_node, fs[t].tail, fs[t].last, fs[t].arg} :
               t \in Threads} \ {NoNode}

\* The slots no live object occupies.
FreeRefs(nd, d, fs) ==
    EntryIds \ Reach(nd, {HeadId, TailId} \cup Range(d) \cup Locals(fs))

AllocRef(nd, d, fs) ==
    CHOOSE n \in FreeRefs(nd, d, fs) : \A m \in FreeRefs(nd, d, fs) : n <= m

\* Objects nothing refers to any more are dropped.
CollectLive(nd, d, fs) ==
    [n \in NodeIds |->
        IF n \in EntryIds /\ n \in FreeRefs(nd, d, fs) THEN FreeSlot ELSE nd[n]]

\* The frame once the calls at the head of its position are entered: the
\* helper's parameter is bound and its first statement comes next; the
\* line after the call waits below it (none after line 47, the last
\* statement of _move_to_head).
RECURSIVE Enter(_)
Enter(f) ==
    IF f.pos = <<>> THEN f
    ELSE LET line == Head(f.pos)
             rest == Tail(f.pos)
         IN  CASE line = 60 -> Enter([f EXCEPT !.arg = f.node, !.pos = <<46, 61>> \o rest])
               [] line = 78 -> Enter([f EXCEPT !.arg = f.node, !.pos = <<46, 79>> \o rest])
               [] line = 46 -> [f EXCEPT !.pos = <<44, 47>> \o rest]
               [] line = 47 -> [f EXCEPT !.pos = <<40>> \o rest]
               [] line = 73 -> [f EXCEPT !.arg = f.new_node, !.pos = <<40, 74>> \o rest]
               [] line = 84 -> [f EXCEPT !.arg = f.node, !.pos = <<44, 85>> \o rest]
               [] line = 68 -> [f EXCEPT !.pos = <<49, 69>> \o rest]
               [] line = 52 -> [f EXCEPT !.arg = f.last, !.pos = <<44, 53>> \o rest]
               [] OTHER     -> f

\* The statement now at line `line` of the same method comes next.
To(f, line) == [f EXCEPT !.pos = <<line>> \o Tail(f.pos)]

\* The helper is done: its caller goes on.
Pop(f) == [f EXCEPT !.pos = Tail(f.pos)]

\* What one statement leaves: the frame, the shared objects, and whether
\* the call goes on, returns value, or raises value.
Out(f, c, nd, m) ==
    [frame |-> f, cache |-> c, nodes |-> nd, metrics |-> m,
     exit |-> "none", value |-> None]

Return(f, m, v) ==
    [frame |-> f, cache |-> cache, nodes |-> nodes, metrics |-> m,
     exit |-> "return", value |-> v]

Raise(f, nd, exception) ==
    [frame |-> f, cache |-> cache, nodes |-> nd, metrics |-> metrics,
     exit |-> "raise", value |-> exception]

\* _add_node, lines 40-42
_add_node_stmt(f) ==
    LET line == Head(f.pos)
    IN  CASE line = 40 ->
                 Out(To(f, 41), cache,
                     [nodes EXCEPT ![f.arg].prev = HeadId,
                                   ![f.arg].next = nodes[HeadId].next], metrics)
          [] line = 41 ->
                 Out(To(f, 42), cache,
                     [nodes EXCEPT ![nodes[HeadId].next].prev = f.arg], metrics)
          [] line = 42 ->
                 Out(Pop(f), cache, [nodes EXCEPT ![HeadId].next = f.arg], metrics)

\* _remove_node, line 44: one statement.  node.next and node.prev are read,
\* then node.prev.next is assigned, then node.next.prev; a None in
\* node.prev or node.next raises AttributeError at that point.
_remove_node_stmt(f) ==
    LET a  == nodes[f.arg].next
        b  == nodes[f.arg].prev
        n1 == [nodes EXCEPT ![b].next = a]
    IN  IF b = NoNode THEN Raise(f, nodes, "AttributeError")
        ELSE IF n1[f.arg].next = NoNode THEN Raise(f, n1, "AttributeError")
        ELSE Out(Pop(f), cache, [n1 EXCEPT ![n1[f.arg].next].prev = b], metrics)

\* _pop_tail, lines 49-53; its result lands in put's tail, line 68.
_pop_tail_stmt(f) ==
    LET line == Head(f.pos)
    IN  CASE line = 49 ->
                 Out([To(f, 50) EXCEPT !.last = nodes[TailId].prev],
                     cache, nodes, metrics)
          [] line = 50 ->
                 Out(To(f, IF f.last = HeadId THEN 51 ELSE 52), cache, nodes, metrics)
          [] line = 51 ->
                 Out([Pop(f) EXCEPT !.tail = NoNode], cache, nodes, metrics)
          [] line = 53 ->
                 Out([Pop(f) EXCEPT !.tail = f.last], cache, nodes, metrics)

\* get, lines 55-62
get_stmt(f) ==
    LET line == Head(f.pos)
    IN  CASE line = 55 ->
                 Out(To(f, 56), cache, nodes, CountRequest(metrics))
          [] line = 56 ->
                 Out([To(f, 57) EXCEPT !.node = DictGet(cache, f.key)],
                     cache, nodes, metrics)
          [] line = 57 ->
                 Out(To(f, IF f.node = NoNode THEN 58 ELSE 60), cache, nodes, metrics)
          [] line = 58 ->
                 Out(To(f, 59), cache, nodes, [metrics EXCEPT !.misses = @ + 1])
          [] line = 59 -> Return(f, metrics, None)
          [] line = 61 ->
                 Out(To(f, 62), cache, nodes, [metrics EXCEPT !.hits = @ + 1])
          [] line = 62 -> Return(f, metrics, nodes[f.node].value)

\* Mutant: the new entry is added without the capacity test.
put_capacity_check_skipped(f) == Out(To(f, 72), cache, nodes, metrics)

\* put, line 67: the capacity test, and where it leads.
put_capacity_check(f) ==
    Out(To(f, IF AtCapacity(DictLen(cache), capacity) THEN 68 ELSE 72),
        cache, nodes, metrics)

\* put, lines 64-79; line 66 takes a free slot for the new LRUNode.
put_stmt(f) ==
    LET line == Head(f.pos)
    IN  CASE line = 64 ->
                 Out([To(f, 65) EXCEPT !.node = DictGet(cache, f.key)],
                     cache, nodes, metrics)
          [] line = 65 ->
                 Out(To(f, IF f.node = NoNode THEN 66 ELSE 77), cache, nodes, metrics)
          [] line = 66 ->
                 LET new == AllocRef(nodes, cache, frames)
                 IN  Out([To(f, 67) EXCEPT !.new_node = new], cache,
                         [nodes EXCEPT ![new] = LRUNode(f.key, f.value)], metrics)
          [] line = 67 -> put_capacity_check(f)
          [] line = 69 ->
                 Out(To(f, IF f.tail # NoNode THEN 70 ELSE 72), cache, nodes, metrics)
          [] line = 70 ->
                 IF nodes[f.tail].key \in DOMAIN cache
                 THEN Out(To(f, 71), DictDel(cache, nodes[f.tail].key), nodes, metrics)
                 ELSE Raise(f, nodes, "KeyError")
          [] line = 71 ->
                 Out(To(f, 72), cache, nodes, [metrics EXCEPT !.evictions = @ + 1])
          [] line = 72 ->
                 Out(To(f, 73), DictSet(cache, f.key, f.new_node), nodes, metrics)
          [] line = 74 ->
                 Out(To(f, 75), cache, nodes,
                     [metrics EXCEPT !.cache_size = DictLen(cache)])
          [] line = 75 -> Return(f, metrics, TRUE)
          [] line = 77 ->
                 Out(To(f, 78), cache,
                     [nodes EXCEPT ![f.node].value = f.value], metrics)
          [] line = 79 -> Return(f, metrics, FALSE)

\* delete, lines 81-87
delete_stmt(f) ==
    LET line == Head(f.pos)
    IN  CASE line = 81 ->
                 Out([To(f, 82) EXCEPT !.node = DictGet(cache, f.key)],
                     cache, nodes, metrics)
          [] line = 82 ->
                 Out(To(f, IF f.node = NoNode THEN 83 ELSE 84), cache, nodes, metrics)
          [] line = 83 -> Return(f, metrics, FALSE)
          [] line = 85 ->
                 IF f.key \in DOMAIN cache
                 THEN Out(To(f, 86), DictDel(cache, f.key), nodes, metrics)
                 ELSE Raise(f, nodes, "KeyError")
          [] line = 86 ->
                 Out(To(f, 87), cache, nodes,
                     [metrics EXCEPT !.cache_size = DictLen(cache)])
          [] line = 87 -> Return(f, metrics, TRUE)

\* clear, lines 89-91; the method ends after line 91 and returns None.
clear_stmt(f) ==
    LET line == Head(f.pos)
    IN  CASE line = 89 -> Out(To(f, 90), EmptyDict, nodes, metrics)
          [] line = 90 ->
                 Out(To(f, 91), cache,
                     [nodes EXCEPT ![HeadId].next = TailId, ![TailId].prev = HeadId],
                     metrics)
          [] line = 91 -> Return(f, [metrics EXCEPT !.cache_size = 0], None)

\* The statement a frame is at.
Statement(f) ==
    LET line == Head(f.pos)
    IN  CASE line \in 40..42 -> _add_node_stmt(f)
          [] line = 44       -> _remove_node_stmt(f)
          [] line \in 49..53 -> _pop_tail_stmt(f)
          [] line \in 55..62 -> get_stmt(f)
          [] line \in 64..79 -> put_stmt(f)
          [] line \in 81..87 -> delete_stmt(f)
          [] line \in 89..91 -> clear_stmt(f)

\* The first statement of each public method.
FirstLine(name) ==
    CASE name = "get"    -> 55
      [] name = "put"    -> 64
      [] name = "delete" -> 81
      [] name = "clear"  -> 89

\* Mutant: the lock is not looked at.
MayEnter_unlocked(t) == TRUE

\* With locking, a call starts only while nobody holds the lock.
MayEnter(t) == locking => owner = NoThread

\* The calls tried: up to MaxCalls calls in all.  Callers that lock call
\* every method.  Callers that do not lock put new keys, and a call starts
\* during another one only in the case of interest: the cache is full and
\* the two keys differ.
MayCall(t, name, key) ==
    /\ started < MaxCalls
    /\ locking \/ /\ name = "put"
                  /\ key \notin DOMAIN cache
                  /\ \A u \in Threads \ {t} :
                         frames[u].pos # <<>> =>
                             /\ AtCapacity(DictLen(cache), capacity)
                             /\ frames[u].key # key

\* Thread t calls a method (and takes the lock first, with locking).
Begin(t, name, key, value) ==
    /\ raised = "none"
    /\ frames[t].pos = <<>>
    /\ frames[t].raised = "none"
    /\ MayCall(t, name, key)
    /\ MayEnter(t)
    /\ frames' = [frames EXCEPT ![t] =
                     Enter([IdleFrame EXCEPT !.name = name, !.key = key,
                                             !.value = value,
                                             !.pos = <<FirstLine(name)>>])]
    /\ owner' = IF locking THEN t ELSE owner
    /\ started' = started + 1
    /\ UNCHANGED <<capacity, cache, nodes, metrics, raised, op, ret, touched,
                   lastPut, streak, gone, balance, locking>>

\* Thread t runs its next statement.  A return or an exception ends the
\* call: the frame's locals are gone and the lock, if held, is released; a
\* thread whose call raised makes no further call.
Step(t) ==
    /\ frames[t].pos # <<>>
    /\ Head(frames[t].pos) = 66 => FreeRefs(nodes, cache, frames) # {}
    /\ LET r    == Statement(frames[t])
           left == IF r.exit = "none" THEN Enter(r.frame)
                   ELSE IF r.exit = "return"
                   THEN [IdleFrame EXCEPT !.ret = r.value]
                   ELSE [IdleFrame EXCEPT !.raised = r.value]
           fs   == [frames EXCEPT ![t] = left]
       IN  /\ frames' = fs
           /\ cache' = r.cache
           /\ nodes' = IF r.exit = "none" THEN r.nodes
                       ELSE CollectLive(r.nodes, r.cache, fs)
           /\ metrics' = r.metrics
           /\ owner' = IF r.exit = "none" THEN owner ELSE NoThread
    /\ UNCHANGED <<capacity, raised, op, ret, touched, lastPut, streak, gone,
                   balance, locking, started>>

\* Before the threads start, the cache is filled from one thread: whole
\* put calls of new keys, until the cache is full.
Fill(key, value) ==
    /\ raised = "none"
    /\ started = 0
    /\ key \notin DOMAIN cache
    /\ ~AtCapacity(DictLen(cache), capacity)
    /\ LET r == put(Self, key, value)
       IN  /\ cache' = r.cache
           /\ nodes' = Collect(r.nodes, r.cache)
           /\ metrics' = r.metrics
    /\ UNCHANGED <<capacity, raised, op, ret, touched, lastPut, streak, gone,
                   balance, locking, owner, frames, started>>

\* The values the threads store.
ThreadValues == {"v1"}

NextThreads ==
    \/ \E key \in Keys, value \in ThreadValues : Fill(key, value)
    \/ \E t \in Threads, key \in Keys : Begin(t, "get", key, None)
    \/ \E t \in Threads, key \in Keys, value \in ThreadValues :
           Begin(t, "put", key, value)
    \/ \E t \in Threads, key \in Keys : Begin(t, "delete", key, None)
    \/ \E t \in Threads : Begin(t, "clear", "", None)
    \/ \E t \in Threads : Step(t)

\* One cache shared by the threads, whose callers either all use the lock
\* or all do not.
InitThreads ==
    \E c \in CapacityArgs, l \in BOOLEAN :
        /\ Construct(c)
        /\ locking = l
        /\ owner = NoThread
        /\ frames = [t \in Threads |-> IdleFrame]
        /\ started = 0

SpecThreads == InitThreads /\ [][NextThreads]_vars

\* The line thread t is at (0 outside a call).
LineOf(t) == IF frames[t].pos = <<>> THEN 0 ELSE Head(frames[t].pos)

\* C21: with one call at a time, the table never holds more than capacity
\* entries between any two statements of any method; when put is about to
\* add the new entry (line 72) the table holds fewer than capacity entries
\* and the entry it evicted is out of the table already.
C21_NeverOverCapacity ==
    (locking /\ raised = "none") =>
        /\ DictLen(cache) <= capacity
        /\ \A t \in Threads :
               LineOf(t) = 72 =>
                   /\ DictLen(cache) < capacity
                   /\ frames[t].tail # NoNode =>
                          nodes[frames[t].tail].key \notin DOMAIN cache

\* A put of a new key into a full cache has evicted and has just added its
\* entry: the table is full again, and _add_node comes next.
C21_Witness ==
    /\ locking
    /\ \E t \in Threads :
           /\ frames[t].name = "put"
           /\ LineOf(t) = 40
           /\ frames[t].tail # NoNode
           /\ frames[t].key \in DOMAIN cache
           /\ DictLen(cache) = capacity
           /\ metrics.evictions = 1

\* The threads that are inside a call.
InCall == {t \in Threads : frames[t].pos # <<>>}

\* The table and the recency list agree: the list, read from the head
\* sentinel, carries the keys of the table, each once, and prev mirrors next.
TableAgreesWithList ==
    /\ SeqRange(ListKeys) = DOMAIN cache
    /\ Len(ListKeys) = DictLen(cache)
    /\ \A i \in 1..(Len(Chain) - 1) :
          /\ nodes[Chain[i]].next = Chain[i + 1]
          /\ nodes[Chain[i + 1]].prev = Chain[i]
    /\ \A k \in DOMAIN cache : nodes[cache[k]].key = k

\* C24: when every call is made under the one lock, at most one thread is
\* inside a call, no call raises, the table never holds more than capacity
\* entries, and whenever the lock is free the table and the recency list
\* agree.  (Without the lock a state with more than capacity entries is
\* reached: C24_Witness.)
C24_LockKeepsStructure ==
    (locking /\ raised = "none") =>
        /\ Cardinality(InCall) <= 1
        /\ InCall = {owner} \ {NoThread}
        /\ \A t \in Threads : frames[t].raised = "none"
        /\ DictLen(cache) <= capacity
        /\ owner = NoThread => TableAgreesWithList

\* No lock: two puts of distinct new keys into the full cache interleaved,
\* both returned without an exception, and the table holds more than
\* capacity entries.
C24_Witness ==
    /\ ~locking
    /\ InCall = {}
    /\ started = 2
    /\ \A t \in Threads : frames[t].raised = "none"
    /\ capacity = 1 /\ metrics.evictions = 1
    /\ DictLen(cache) > capacity

====
